---- MODULE Spec2Model ----
(***************************************************************************)
(* State-machine model of the mini-agents repository: WeatherAgent         *)
(* (src/weather_agent.py) and LanguageAgent (src/language_agent.py), the   *)
(* two objects built once by src/combined_agent.py and then driven by one  *)
(* process_query call per HTTP request.                                    *)
(*                                                                         *)
(* Time.  The wall clock `now` is counted in ticks, TicksPerSec ticks to   *)
(* the second, so that int(time.time()) is a real truncation.  reset_at is *)
(* kept in whole seconds, as the code keeps it.  The clock advances        *)
(* between requests and while a request waits for an outbound call;        *)
(* readings with no outbound call between them are the same reading.       *)
(*                                                                         *)
(* Text.  A query is a sequence of lower-case words (what                  *)
(* query.lower().split() yields).  The regular expressions of the source   *)
(* are matched at word granularity; on the queries of Queries this agrees  *)
(* with Python's re on the joined text.                                    *)
(***************************************************************************)
EXTENDS Integers, Sequences, FiniteSets, TLC

\* ------------------------------------------------------------------ bounds
\* Stand-in for rate_limit["limit"] (100000 in the source), scaled down so
\* that the budget can be exhausted.
Limit == 2
\* Stand-in for the 3600-second refill window of the rate limit, in seconds.
Hour == 1
\* Clock resolution.
TicksPerSec == 2
\* Largest number of ticks that elapse inside one process_query call.
MaxElapsed == 1
\* Calls are no longer issued once remaining has fallen this far below zero.
MaxOverdraft == 1

\* ------------------------------------------------------- program constants
MIN_INPUT_TOKENS == 1
MAX_TOTAL_TOKENS == 200000
CharsPerToken == 4
FreshnessSecs == 3600
ResponseBudgetMs == 2000
MsPerSec == 1000

\* The clock stops advancing one tick after the first reset_at.
MaxNow == Hour * TicksPerSec + 1

\* ----------------------------------------------------------------- helpers
Max(a, b) == IF a >= b THEN a ELSE b

\* int(x) of a clock reading: whole seconds.
IntSecs(t) == t \div TicksPerSec

\* round(n/d) to the nearest integer, ties to even (Python's round on the
\* exact value), for n >= 0 and d > 0.
RoundHalfEven(n, d) ==
    LET q == n \div d
        r == n % d
    IN  IF 2 * r < d THEN q
        ELSE IF 2 * r > d THEN q + 1
        ELSE IF q % 2 = 0 THEN q ELSE q + 1

\* Optional[Dict[str, str]]: None, or {"city": c} with c a sequence of words.
None == [none |-> TRUE, city |-> <<>>]
Loc(c) == [none |-> FALSE, city |-> c]
\* Python truthiness of a location: None is falsy, a one-key dict is truthy.
Truthy(loc) == ~loc.none

\* ------------------------------------------------------------ rate limiter
\* update_rate_limit with the comparison time.time() > reset_at.
update_rate_limit_strict(rl, t1, t2) ==
    LET dec == rl.remaining - 1
    IN  IF dec <= 0 /\ t1 > rl.reset_at * TicksPerSec
        THEN [limit |-> rl.limit, remaining |-> rl.limit,
              reset_at |-> IntSecs(t2) + Hour]
        ELSE [rl EXCEPT !.remaining = dec]

\* update_rate_limit, identical in both agents.  t1 is the clock read by the
\* comparison with reset_at, t2 the clock read by the assignment.
update_rate_limit(rl, t1, t2) ==
    LET dec == rl.remaining - 1
    IN  IF dec <= 0 /\ t1 >= rl.reset_at * TicksPerSec
        THEN [limit |-> rl.limit, remaining |-> rl.limit,
              reset_at |-> IntSecs(t2) + Hour]
        ELSE [rl EXCEPT !.remaining = dec]

\* The refill branch of update_rate_limit is taken.
Refills(rl, t1) == rl.remaining - 1 <= 0 /\ t1 >= rl.reset_at * TicksPerSec

\* Number of consecutive update_rate_limit calls made before reset_at since
\* remaining was last equal to limit; -1 once a call was made at or after
\* reset_at without refilling.
NextStreak(streak, rl, t1) ==
    IF Refills(rl, t1) THEN 0
    ELSE IF streak >= 0 /\ t1 < rl.reset_at * TicksPerSec THEN streak + 1
    ELSE -1

\* ------------------------------------------------------------ LanguageAgent
estimate_tokens(len) == Max(1, len \div CharsPerToken)

\* validate_input_length without the upper limit.
validate_input_length_min_only(len) ==
    estimate_tokens(len) >= MIN_INPUT_TOKENS

validate_input_length(len) ==
    /\ estimate_tokens(len) >= MIN_INPUT_TOKENS
    /\ estimate_tokens(len) <= MAX_TOTAL_TOKENS

\* Lengths (in characters) of the user_input values tried.
InputLengths == {0, 3, 4, 800003, 800004, 800008}

\* ------------------------------------------------------------ WeatherAgent
\* Queries tried, as query.lower().split() yields them.
Queries ==
    { <<"what", "is", "the", "capital", "of", "france">>,
      <<"weather", "in", "xyzzyplatypus123">>,
      <<"it's", "so", "cold", "today">>,
      <<"weather", "today">>,
      <<"is", "it", "raining">> }

TimeWords == {"today", "now", "tomorrow"}
Preps == {"in", "at", "for"}
\* Words with a character outside [\w\s], which no capture group accepts.
NonWord == {"it's", "what's", "how's"}

weather_keywords ==
    {"weather", "temperature", "rain", "snow", "wind", "sunny", "cloudy",
     "forecast", "humidity", "storm", "climate", "precipitation", "cold",
     "hot", "warm", "chilly", "freezing", "degrees", "celsius", "fahrenheit"}

Words(q) == {q[i] : i \in 1..Len(q)}
Suffix(q, i) == SubSeq(q, i, Len(q))
IsPlain(ws) == \A i \in 1..Len(ws) : ws[i] \notin NonWord

\* re.sub(r'\s*(?:today|now|tomorrow)\s*$', '', location)
StripTime(ws) ==
    IF Len(ws) > 0 /\ ws[Len(ws)] \in TimeWords
    THEN SubSeq(ws, 1, Len(ws) - 1) ELSE ws

\* The lazy group ([\w\s]+?) before (?:\s+(?:today|now|tomorrow))?\??$ : it
\* takes at least one word and gives up one trailing time word if it can.
Capture(ws) ==
    IF Len(ws) > 1 /\ ws[Len(ws)] \in TimeWords
    THEN SubSeq(ws, 1, Len(ws) - 1) ELSE ws

\* "(?:what's|what is|how's|how is) " ends right before word i.
AsksBefore(q, i) ==
    \/ i >= 2 /\ q[i - 1] \in {"what's", "how's"}
    \/ i >= 3 /\ q[i - 2] \in {"what", "how"} /\ q[i - 1] = "is"

is_weather_related(q) == \E k \in weather_keywords : k \in Words(q)

is_weather_query(q) ==
    \/ \E i \in 1..Len(q) - 1 : q[i] = "weather" /\ q[i + 1] \in Preps
    \/ \E i \in 1..Len(q) :
          /\ q[i] = "weather"
          /\ \/ AsksBefore(q, i)
             \/ i >= 2 /\ q[i - 1] = "the" /\ AsksBefore(q, i - 1)
    \/ \E i \in 1..Len(q) - 1 : q[i] = "temperature" /\ q[i + 1] \in Preps
    \/ \E i \in 1..Len(q) - 2 :
          /\ q[i] = "is" /\ q[i + 1] = "it"
          /\ q[i + 2] \in {"raining", "snowing", "sunny", "cloudy"}
    \/ \E i \in 1..Len(q) - 2 :
          q[i] = "will" /\ q[i + 1] = "it" /\ q[i + 2] \in {"rain", "snow"}
    \/ "forecast" \in Words(q)

\* Start positions of the captured group for each of the four patterns of
\* extract_location (empty when the pattern does not match).
Pattern1(q) ==
    {i + 2 : i \in {j \in 1..Len(q) - 2 :
        q[j] = "weather" /\ q[j + 1] \in Preps /\ IsPlain(Suffix(q, j + 2))}}
Pattern2(q) ==
    {i + 1 : i \in {j \in 1..Len(q) - 1 :
        q[j] = "weather" /\ IsPlain(Suffix(q, j + 1))}}
Pattern3(q) ==
    {s \in 2..Len(q) :
        /\ q[s - 1] \in Preps
        /\ IsPlain(Suffix(q, s))
        /\ \E w \in 1..s - 2 :
              /\ q[w] = "weather"
              /\ w = s - 2 \/ (w = s - 3 /\ q[s - 2] = "like")
              /\ \/ AsksBefore(q, w)
                 \/ w >= 2 /\ q[w - 1] = "the" /\ AsksBefore(q, w - 1)}
Pattern4(q) ==
    {i + 2 : i \in {j \in 1..Len(q) - 2 :
        q[j] = "temperature" /\ q[j + 1] \in Preps /\ IsPlain(Suffix(q, j + 2))}}

\* re.search finds the leftmost match.
Leftmost(S) == CHOOSE s \in S : \A u \in S : s <= u

\* The regex stage of extract_location: the first matching pattern decides.
RegexStarts(q) ==
    IF Pattern1(q) # {} THEN Pattern1(q)
    ELSE IF Pattern2(q) # {} THEN Pattern2(q)
    ELSE IF Pattern3(q) # {} THEN Pattern3(q)
    ELSE Pattern4(q)

RegexMatches(q) == RegexStarts(q) # {}

RegexLocation(q) ==
    Loc(StripTime(Capture(Suffix(q, Leftmost(RegexStarts(q))))))

\* The classification and regex stage of every query of Queries.
QueryFacts ==
    [q \in Queries |->
        [direct |-> is_weather_query(q), related |-> is_weather_related(q),
         matches |-> RegexMatches(q),
         location |-> IF RegexMatches(q) THEN RegexLocation(q) ELSE None]]

\* Replies of the language model to the location-extraction prompt: the call
\* raises, or returns a text (already split into words).
ExtractReplies ==
    { [ok |-> FALSE, text |-> <<>>],
      [ok |-> TRUE, text |-> <<"today">>],
      [ok |-> TRUE, text |-> <<"tokyo", "now">>] }

\* extract_location: regex stage, then the language-model fallback.
extract_location(q, reply) ==
    IF QueryFacts[q].matches THEN QueryFacts[q].location
    ELSE IF ~reply.ok THEN None
    ELSE IF StripTime(reply.text) # <<>> THEN Loc(StripTime(reply.text))
    ELSE None

\* extract_location asking the language model a second time.
ExtractCallsRetry(q) == IF QueryFacts[q].matches THEN 0 ELSE 2

\* Outbound language-model calls made by extract_location.
ExtractCalls(q) == IF QueryFacts[q].matches THEN 0 ELSE 1


\* Raw weather payloads.  keys: which of the top-level keys the code reads
\* are present; extra: the payload has some other key (so it is a non-empty
\* dict even without them); dt_off: payload["dt"] minus the whole second at
\* which the query started; weather_len: len(payload["weather"]) when that
\* key is present.  NoData stands for None.
required_fields == {"main", "weather", "wind"}
DtOffsets == {-1800, 1800}
NoData ==
    [present |-> FALSE, keys |-> {}, extra |-> FALSE, dt_off |-> 0,
     weather_len |-> 0]
Payloads ==
    {[present |-> TRUE, keys |-> K, extra |-> (K # {}), dt_off |-> 0,
      weather_len |-> 0] : K \in {{}, {"main", "wind"}}}
    \cup {[present |-> TRUE, keys |-> required_fields \cup {"dt"},
           extra |-> TRUE, dt_off |-> o, weather_len |-> 1] :
              o \in DtOffsets}
    \cup {[present |-> TRUE, keys |-> required_fields, extra |-> TRUE,
           dt_off |-> 0, weather_len |-> 0]}

\* Python truthiness of weather_data: None and {} are falsy.
HasData(wd) == wd.present /\ (wd.keys # {} \/ wd.extra)

\* Outcomes of requests.get: it raises, answers non-200, or answers 200.
ProviderReplies ==
    {[kind |-> "exception", data |-> NoData],
     [kind |-> "status", data |-> NoData]}
    \cup {[kind |-> "ok", data |-> p] : p \in Payloads}

\* get_weather_data reporting fallback only when no request was made.
get_weather_data_unflagged(location, reply) ==
    IF location.city = <<>>
    THEN [data |-> NoData, fallback_used |-> TRUE, gets |-> 0]
    ELSE IF reply.kind = "ok"
    THEN [data |-> reply.data, fallback_used |-> FALSE, gets |-> 1]
    ELSE [data |-> NoData, fallback_used |-> FALSE, gets |-> 1]

\* get_weather_data: (weather_data, fallback_used, number of GETs issued).
\* The elapsed-time component of the tuple is not modelled.
get_weather_data(location, reply) ==
    IF location.city = <<>>
    THEN [data |-> NoData, fallback_used |-> TRUE, gets |-> 0]
    ELSE IF reply.kind = "ok"
    THEN [data |-> reply.data, fallback_used |-> FALSE, gets |-> 1]
    ELSE [data |-> NoData, fallback_used |-> TRUE, gets |-> 1]

\* format_weather_data, by the shape of what it returns.  The lookups run in
\* the order main, weather, weather[0], wind; a missing key is a KeyError,
\* which is caught; weather[0] of an empty list is an IndexError, which is
\* not, and the function raises.
format_weather_data(wd) ==
    IF ~HasData(wd) THEN "unavailable"
    ELSE IF "main" \notin wd.keys \/ "weather" \notin wd.keys
    THEN "format_error"
    ELSE IF wd.weather_len = 0 THEN "raise"
    ELSE IF "wind" \notin wd.keys THEN "format_error"
    ELSE "record"

\* int((t - t0) * 1000)
ElapsedMs(t0, t) == ((t - t0) * MsPerSec) \div TicksPerSec

\* calculate_confidence_score, in hundredths.  wd is the raw payload, t0 the
\* clock at the start of the query (dt is relative to it), tc the clock read
\* for data_age, response_time in milliseconds.
calculate_confidence_score(wd, response_time, t0, tc) ==
    LET fden == FreshnessSecs * TicksPerSec
        age == tc - (IntSecs(t0) + wd.dt_off) * TicksPerSec
        fnum == IF HasData(wd) /\ "dt" \in wd.keys
                THEN Max(0, fden - age) ELSE 0
        k == IF HasData(wd) THEN Cardinality(required_fields \cap wd.keys)
             ELSE 0
        rden == ResponseBudgetMs \div 20
        rnum == Max(0, ResponseBudgetMs - response_time)
    IN  RoundHalfEven(40 * fnum * 3 * rden + 40 * k * fden * rden
                          + rnum * fden * 3,
                      fden * 3 * rden)


\* -------------------------------------------------------------------- state
VARIABLES
    now,              \* wall clock, in ticks
    rate_limit,       \* WeatherAgent.rate_limit
    last_location,    \* WeatherAgent.last_location
    lang_rate_limit,  \* LanguageAgent.rate_limit
    streak,           \* per agent, see NextStreak
    last,             \* audit record of the most recent process_query call
    requests,         \* the requests being served concurrently, see Idle
    race              \* what the concurrent requests did to each other

vars ==
    <<now, rate_limit, last_location, lang_rate_limit, streak, last,
      requests, race>>

\* Token total the language model reports for a generation call.
TokenCounts == {25}

\* The audit record before any call.  agent, direct, related, regex,
\* input_len: who was called and on what.  outcome, keys, type, text,
\* total_tokens, fallback_used, weather_data, confidence, location_context,
\* response_time: what came back.  extract_calls, fetch_calls,
\* update_calls: calls of extract_location, get_weather_data and
\* update_rate_limit.  llm_calls, gen_calls, get_calls: outbound calls to the
\* language model (all, and those that generate the answer) and to the
\* weather provider.  extracted, location: what extract_location returned
\* and the location resolved.  provider, raw: the provider's reply.
\* pre_remaining, pre_streak, late, set_read: the rate limiter before the
\* call, whether the clock had reached reset_at, and the clock reading used
\* by the assignment to reset_at (0 when that line is not reached).  kept_location, kept_rate_limit: the call left the field
\* as it was.
NoCall ==
    [agent |-> "none", outcome |-> "none", keys |-> {}, type |-> "none",
     total_tokens |-> 0, fallback_used |-> FALSE, weather_data |-> "absent",
     confidence |-> 0, location_context |-> "absent",
     direct |-> FALSE, related |-> FALSE, regex |-> FALSE,
     extract_calls |-> 0, extracted |-> None, location |-> None,
     fetch_calls |-> 0, provider |-> "none", raw |-> NoData,
     response_time |-> 0, llm_calls |-> 0, gen_calls |-> 0, get_calls |-> 0,
     update_calls |-> 0, late |-> FALSE, set_read |-> 0,
     pre_remaining |-> 0, pre_streak |-> 0,
     kept_location |-> TRUE, kept_rate_limit |-> TRUE,
     input_len |-> 0, text |-> "none"]

\* Location resolution reusing the cached location for direct queries too.
ResolveLocationAnyCached(location, cached, direct, chat) ==
    IF ~Truthy(location) /\ Truthy(cached)
    THEN [error |-> FALSE, location |-> cached, last_location |-> cached]
    ELSE IF Truthy(location)
    THEN [error |-> FALSE, location |-> location, last_location |-> location]
    ELSE IF ~Truthy(location) /\ direct
    THEN [error |-> TRUE, location |-> None, last_location |-> cached]
    ELSE [error |-> FALSE, location |-> Loc(<<"general">>),
          last_location |-> cached]

\* Location resolution that also stores the "general" default.
ResolveLocationStoringDefault(location, cached, direct, chat) ==
    IF ~Truthy(location) /\ Truthy(cached) /\ chat /\ ~direct
    THEN [error |-> FALSE, location |-> cached, last_location |-> cached]
    ELSE IF Truthy(location)
    THEN [error |-> FALSE, location |-> location, last_location |-> location]
    ELSE IF ~Truthy(location) /\ direct
    THEN [error |-> TRUE, location |-> None, last_location |-> cached]
    ELSE [error |-> FALSE, location |-> Loc(<<"general">>),
          last_location |-> Loc(<<"general">>)]

\* Location resolution of process_query (the if/elif chain after
\* extract_location): the location used, the new last_location, and whether
\* the call returns the location error.
ResolveLocation(location, cached, direct, chat) ==
    IF ~Truthy(location) /\ Truthy(cached) /\ chat /\ ~direct
    THEN [error |-> FALSE, location |-> cached, last_location |-> cached]
    ELSE IF Truthy(location)
    THEN [error |-> FALSE, location |-> location, last_location |-> location]
    ELSE IF ~Truthy(location) /\ direct
    THEN [error |-> TRUE, location |-> None, last_location |-> cached]
    ELSE [error |-> FALSE, location |-> Loc(<<"general">>),
          last_location |-> cached]

EnvelopeKeys == {"meta", "rate_limit", "response", "usage", "query"}

\* The branch taken if the chat test came before the direct-query test.
PathChatFirst(direct, chat) ==
    IF ~(direct \/ chat) THEN "off_topic"
    ELSE IF chat THEN "chat"
    ELSE "report"

\* The branch process_query takes (the tests at lines 289 and 346).
Path(direct, chat) ==
    IF ~(direct \/ chat) THEN "off_topic"
    ELSE IF chat /\ ~direct THEN "chat"
    ELSE "report"

\* generate_non_weather_response letting the failure of its call escape.
generate_non_weather_response_raising(aux_ok) ==
    [raised |-> ~aux_ok, text |-> IF aux_ok THEN "model" ELSE "none"]

\* generate_non_weather_response and generate_weather_chat_response: one
\* language-model call each; a failure of the call is caught and answered
\* with a fixed line.
generate_non_weather_response(aux_ok) ==
    [raised |-> FALSE, text |-> IF aux_ok THEN "model" ELSE "fallback_line"]
generate_weather_chat_response(aux_ok) ==
    [raised |-> FALSE, text |-> IF aux_ok THEN "model" ELSE "fallback_line"]

\* The audit of one update_rate_limit call made at clock t.
Counted(audit, rl, t) ==
    [audit EXCEPT !.update_calls = @ + 1,
                  !.late = (t >= rl.reset_at * TicksPerSec),
                  !.set_read = IF Refills(rl, t) THEN t ELSE 0]

\* WeatherAgent.process_query on query q from the state (rl, cached, sk) at
\* clock t0; t is the clock once its outbound calls have been answered.
\* ext, prov, gen_ok and aux_ok are what the outside world answers:
\* the reply to the location-extraction prompt, the weather provider's reply,
\* whether the client.messages.create call of process_query itself succeeds,
\* and whether the call inside generate_non_weather_response or
\* generate_weather_chat_response succeeds.  The result is the state after
\* the call and its audit record.
process_query(rl, cached, sk, t0, q, ext, prov, gen_ok, aux_ok, tokens, t) ==
    LET direct == QueryFacts[q].direct
        chat == QueryFacts[q].related
        path == Path(direct, chat)
        base == [NoCall EXCEPT !.agent = "weather", !.direct = direct,
                               !.related = chat,
                               !.pre_remaining = rl.remaining,
                               !.pre_streak = sk]
        \* line 290 runs before the model call, lines 359 and 402 after
        tu == IF path = "off_topic" THEN t0 ELSE t
        rl2 == update_rate_limit(rl, tu, tu)
        sk2 == NextStreak(sk, rl, tu)
        offtext == generate_non_weather_response(aux_ok)
        extracted == extract_location(q, ext)
        res == ResolveLocation(extracted, cached, direct, chat)
        located == [base EXCEPT !.extract_calls = 1,
                                !.regex = QueryFacts[q].matches,
                                !.extracted = extracted,
                                !.location = res.location,
                                !.llm_calls = ExtractCalls(q)]
        fetch == get_weather_data(res.location, prov)
        formatted == format_weather_data(fetch.data)
        fetched == [located EXCEPT !.fetch_calls = 1,
                                   !.get_calls = fetch.gets,
                                   !.provider =
                                       IF fetch.gets = 1 THEN prov.kind
                                       ELSE "none",
                                   !.raw = fetch.data,
                                   !.llm_calls = @ + 1,
                                   !.gen_calls = 1]
        answered == [Counted(fetched, rl, tu) EXCEPT
                        !.outcome = "returned",
                        !.keys = EnvelopeKeys \cup {"weather_data"},
                        !.weather_data = formatted,
                        !.fallback_used = fetch.fallback_used,
                        !.total_tokens = tokens,
                        !.response_time = ElapsedMs(t0, t),
                        !.text = "model"]
        chattext == generate_weather_chat_response(aux_ok)
    IN  IF path = "off_topic"
        THEN \* lines 289-323: the off-topic envelope
             [rate_limit |-> rl2, last_location |-> cached, now |-> t,
              streak |-> sk2,
              last |-> [Counted(base, rl, tu) EXCEPT
                  !.outcome = IF offtext.raised THEN "raised" ELSE "returned",
                  !.keys = IF offtext.raised THEN {} ELSE EnvelopeKeys,
                  !.type = IF offtext.raised THEN "none"
                           ELSE "off_topic_response",
                  !.confidence = 100,
                  !.response_time = ElapsedMs(t0, tu),
                  !.llm_calls = 1, !.gen_calls = 1,
                  !.text = offtext.text]]
        ELSE IF res.error
        THEN \* line 336: the location error
             [rate_limit |-> rl, last_location |-> res.last_location,
              now |-> t, streak |-> sk,
              last |-> [located EXCEPT !.outcome = "returned",
                                       !.keys = {"error"}]]
        ELSE IF formatted = "raise"
        THEN \* line 343: format_weather_data raises
             [rate_limit |-> rl, last_location |-> res.last_location,
              now |-> t, streak |-> sk,
              last |-> [fetched EXCEPT !.outcome = "raised",
                                       !.llm_calls = @ - 1,
                                       !.gen_calls = 0]]
        ELSE IF ~gen_ok
        THEN \* client.messages.create raises at line 347 or 388
             [rate_limit |-> rl, last_location |-> res.last_location,
              now |-> t, streak |-> sk,
              last |-> [fetched EXCEPT !.outcome = "raised"]]
        ELSE IF path = "chat"
        THEN \* lines 346-385: weather chat
             [rate_limit |-> rl2, last_location |-> res.last_location,
              now |-> t, streak |-> sk2,
              last |-> [answered EXCEPT
                  !.outcome = IF chattext.raised THEN "raised" ELSE "returned",
                  !.type = "weather_chat", !.confidence = 80,
                  !.llm_calls = @ + 1, !.gen_calls = @ + 1,
                  !.text = chattext.text,
                  !.location_context =
                      IF res.location = res.last_location THEN "cached"
                      ELSE "new"]]
        ELSE \* lines 388-432: weather report
             [rate_limit |-> rl2, last_location |-> res.last_location,
              now |-> t, streak |-> sk2,
              last |-> [answered EXCEPT
                  !.type = "weather_report",
                  !.confidence =
                      calculate_confidence_score(fetch.data,
                          ElapsedMs(t0, t), t0, t)]]

\* LanguageAgent.process_query on an input of len characters.  reply_ok: the
\* client.messages.create call succeeds.
lang_process_query(rl, sk, t0, len, reply_ok, tokens, t) ==
    LET base == [NoCall EXCEPT !.agent = "language", !.input_len = len,
                               !.pre_remaining = rl.remaining,
                               !.pre_streak = sk]
    IN  IF ~validate_input_length(len)
        THEN \* lines 68-74
             [rate_limit |-> rl, now |-> t, streak |-> sk,
              last |-> [base EXCEPT !.outcome = "returned",
                                    !.keys = {"error", "meta"}]]
        ELSE IF ~reply_ok
        THEN \* lines 119-125: the exception is turned into an error envelope
             [rate_limit |-> rl, now |-> t, streak |-> sk,
              last |-> [base EXCEPT !.outcome = "returned",
                                    !.keys = {"error", "meta"},
                                    !.llm_calls = 1, !.gen_calls = 1]]
        ELSE \* lines 77-118
             [rate_limit |-> update_rate_limit(rl, t, t),
              now |-> t, streak |-> NextStreak(sk, rl, t),
              last |-> [Counted(base, rl, t) EXCEPT
                  !.outcome = "returned", !.keys = EnvelopeKeys,
                  !.type = "language_response", !.total_tokens = tokens,
                  !.response_time = ElapsedMs(t0, t),
                  !.llm_calls = 1, !.gen_calls = 1,
                  !.text = "model"]]

\* The requests the server's threads run at the same time on the one
\* WeatherAgent of combined_agent.py line 16 (app.run serves each request on
\* a thread of its own).
Requests == {1, 2}

\* A request not yet started.  pc: where the thread is in process_query;
\* q: its query; location: the local variable location; read: the value of
\* rate_limit["remaining"] loaded by the decrement.  source, epoch0,
\* epoch_used, writer_used, updates, refilled, outcome, location_context:
\* where the location came from, the number of writes of last_location when
\* the request started and when it read the cache, the request whose write
\* it read, the update_rate_limit calls it completed, whether it refilled,
\* and how it ended.
Idle ==
    [pc |-> "idle", q |-> <<>>, location |-> None, read |-> 0,
     source |-> "none", epoch0 |-> 0, epoch_used |-> 0, writer_used |-> 0,
     updates |-> 0, refilled |-> FALSE, outcome |-> "none",
     location_context |-> "absent"]

\* ------------------------------------------------------------ specification
\* Both agents are constructed together (combined_agent.py lines 16-17).
Init ==
    /\ now \in 0..TicksPerSec - 1
    /\ rate_limit = [limit |-> Limit, remaining |-> Limit,
                     reset_at |-> IntSecs(now) + Hour]
    /\ last_location = None
    /\ lang_rate_limit = [limit |-> Limit, remaining |-> Limit,
                          reset_at |-> IntSecs(now) + Hour]
    /\ streak = [weather |-> 0, language |-> 0]
    /\ last = NoCall
    /\ requests = [r \in Requests |-> Idle]
    /\ race = [epoch |-> 0, writer |-> 0, overlap |-> FALSE, base |-> Limit]

\* What of the outside world a call can observe; the rest is fixed so that
\* equal behaviours are not enumerated twice.  res is the outcome of location
\* resolution (nothing is resolved for an off-topic query).
OffTopic(q) == ~(QueryFacts[q].direct \/ QueryFacts[q].related)
ExtractDomain(q) ==
    IF OffTopic(q) \/ QueryFacts[q].matches
    THEN {[ok |-> FALSE, text |-> <<>>]}
    ELSE ExtractReplies
Resolved(q, ext) ==
    IF OffTopic(q)
    THEN [error |-> TRUE, location |-> None, last_location |-> last_location]
    ELSE ResolveLocation(extract_location(q, ext), last_location,
                         QueryFacts[q].direct, QueryFacts[q].related)
ProviderDomain(res) ==
    IF ~res.error /\ res.location.city # <<>>
    THEN ProviderReplies ELSE {[kind |-> "exception", data |-> NoData]}
GenDomain(res) == IF ~res.error THEN BOOLEAN ELSE {TRUE}
AuxDomain(q, res, gen_ok) ==
    IF OffTopic(q) THEN BOOLEAN
    ELSE IF ~res.error /\ gen_ok /\ ~QueryFacts[q].direct THEN BOOLEAN
    ELSE {TRUE}
\* One request to POST /weather/query, with the query drawn from Q.
ProcessQueryOn(Q) ==
    /\ rate_limit.remaining > -MaxOverdraft
    /\ \E q \in Q : \E ext \in ExtractDomain(q) :
       \E res \in {Resolved(q, ext)} :
       \E prov \in ProviderDomain(res) : \E gen_ok \in GenDomain(res) :
       \E aux_ok \in AuxDomain(q, res, gen_ok) : \E tokens \in TokenCounts :
       \E t \in now..now + MaxElapsed :
          /\ t <= MaxNow
          /\ \E out \in {process_query(rate_limit, last_location,
                                streak.weather, now, q, ext, prov, gen_ok,
                                aux_ok, tokens, t)} :
              /\ now' = out.now
              /\ rate_limit' = out.rate_limit
              /\ last_location' = out.last_location
              /\ streak' = [streak EXCEPT !.weather = out.streak]
              /\ last' = [out.last EXCEPT
                     !.kept_location = (out.last_location = last_location),
                     !.kept_rate_limit = (out.rate_limit = rate_limit)]
              /\ UNCHANGED <<lang_rate_limit, requests, race>>

ProcessQuery == ProcessQueryOn(Queries)

\* The queries used where only the rate limiter is of interest: one that is
\* off-topic and one that is weather chat.
RateQueries ==
    { <<"what", "is", "the", "capital", "of", "france">>,
      <<"weather", "today">> }

ProcessRateQuery == ProcessQueryOn(RateQueries)

\* One request to POST /language/query.  No time passes in a call that
\* makes no outbound call.
LanguageQuery ==
    /\ lang_rate_limit.remaining > -MaxOverdraft
    /\ \E len \in InputLengths :
       \E reply_ok \in IF validate_input_length(len) THEN BOOLEAN ELSE {TRUE} :
       \E tokens \in TokenCounts :
       \E t \in IF validate_input_length(len) THEN now..now + MaxElapsed
                ELSE {now} :
          /\ t <= MaxNow
          /\ \E out \in {lang_process_query(lang_rate_limit, streak.language,
                                            now, len, reply_ok, tokens, t)} :
              /\ now' = out.now
              /\ lang_rate_limit' = out.rate_limit
              /\ streak' = [streak EXCEPT !.language = out.streak]
              /\ last' = [out.last EXCEPT
                     !.kept_rate_limit = (out.rate_limit = lang_rate_limit)]
              /\ UNCHANGED <<rate_limit, last_location, requests, race>>

\* Time passes between requests.
Tick ==
    /\ now < MaxNow
    /\ now' = now + 1
    /\ UNCHANGED <<rate_limit, last_location, lang_rate_limit, streak, last,
                   requests, race>>

\* The weather agent under every query of Queries.
Next == ProcessQuery \/ Tick

Spec == Init /\ [][Next]_vars

\* Both agents side by side, the weather agent under RateQueries.
NextRate == ProcessRateQuery \/ LanguageQuery \/ Tick

SpecRate == Init /\ [][NextRate]_vars

\* ----------------------------------------------------- concurrent requests
\* Two requests on the same WeatherAgent, each a thread running process_query
\* once.  A step is the code between two accesses of the shared fields
\* rate_limit and last_location, or an outbound call; nothing orders the
\* steps of different threads.

\* The queries of the concurrent requests: off-topic, direct with a location
\* in the text, and chat whose location only the language model can give.
ConcQueries ==
    { <<"what", "is", "the", "capital", "of", "france">>,
      <<"weather", "in", "xyzzyplatypus123">>,
      <<"it's", "so", "cold", "today">> }

\* The agent has served requests before: remaining is anywhere in 1..limit.
InitConc ==
    /\ now \in 0..TicksPerSec - 1
    /\ \E n \in 1..Limit :
          /\ rate_limit = [limit |-> Limit, remaining |-> n,
                           reset_at |-> IntSecs(now) + Hour]
          /\ race = [epoch |-> 0, writer |-> 0, overlap |-> FALSE,
                     base |-> n]
    /\ last_location = None
    /\ lang_rate_limit = [limit |-> Limit, remaining |-> Limit,
                          reset_at |-> IntSecs(now) + Hour]
    /\ streak = [weather |-> 0, language |-> 0]
    /\ last = NoCall
    /\ requests = [r \in Requests |-> Idle]

At(r, pc) == requests[r].pc = pc
Goto(r, pc) == [requests EXCEPT ![r].pc = pc]
Shared == <<now, lang_rate_limit, streak, last>>

\* The store of rate_limit["remaining"] -= 1 if the subtraction were applied
\* to the field as it is at the time of the store.
StoreDecrementAtomic(rl, read) == [rl EXCEPT !.remaining = rl.remaining - 1]

\* The store of rate_limit["remaining"] -= 1: the value loaded earlier, less
\* one.
StoreDecrement(rl, read) == [rl EXCEPT !.remaining = read - 1]

\* Lines 282-289: the classifiers; an off-topic query goes straight to
\* update_rate_limit.
Start(r) ==
    /\ At(r, "idle")
    /\ \E q \in ConcQueries :
          requests' = [requests EXCEPT ![r] =
              [Idle EXCEPT !.q = q, !.epoch0 = race.epoch,
                           !.pc = IF Path(QueryFacts[q].direct,
                                          QueryFacts[q].related) = "off_topic"
                                  THEN "update_read" ELSE "extract"]]
    /\ UNCHANGED <<rate_limit, last_location, race, Shared>>

\* Line 326: extract_location, with its language-model call.
Extract(r) ==
    /\ At(r, "extract")
    /\ \E ext \in ExtractDomain(requests[r].q) :
          requests' = [requests EXCEPT
              ![r].location = extract_location(requests[r].q, ext),
              ![r].pc = "resolve"]
    /\ UNCHANGED <<rate_limit, last_location, race, Shared>>

\* Lines 329-339: the test of the if/elif chain and every branch but the
\* assignment from the cache.
Resolve(r) ==
    /\ At(r, "resolve")
    /\ LET me == requests[r]
           direct == QueryFacts[me.q].direct
           chat == QueryFacts[me.q].related
           res == ResolveLocation(me.location, last_location, direct, chat)
       IN  IF ~Truthy(me.location) /\ Truthy(last_location)
                 /\ chat /\ ~direct
           THEN /\ requests' = Goto(r, "use_cached")
                /\ UNCHANGED <<last_location, race>>
           ELSE /\ last_location' = res.last_location
                /\ race' = IF Truthy(me.location)
                           THEN [race EXCEPT !.epoch = @ + 1, !.writer = r]
                           ELSE race
                /\ requests' = [requests EXCEPT
                      ![r].location = res.location,
                      ![r].source = IF res.error THEN "none"
                                    ELSE IF Truthy(me.location)
                                    THEN "extracted" ELSE "general",
                      ![r].outcome = IF res.error THEN "error" ELSE "none",
                      ![r].pc = IF res.error THEN "done" ELSE "fetch"]
    /\ UNCHANGED <<rate_limit, Shared>>

\* Line 330: location = self.last_location.
UseCached(r) ==
    /\ At(r, "use_cached")
    /\ requests' = [requests EXCEPT
          ![r].location = last_location,
          ![r].source = "cached",
          ![r].epoch_used = race.epoch,
          ![r].writer_used = race.writer,
          ![r].pc = "fetch"]
    /\ UNCHANGED <<rate_limit, last_location, race, Shared>>

\* Lines 342-343: get_weather_data and format_weather_data.
Fetch(r) ==
    /\ At(r, "fetch")
    /\ \E prov \in ProviderDomain([error |-> FALSE,
                                   location |-> requests[r].location]) :
          LET fetch == get_weather_data(requests[r].location, prov)
          IN  requests' =
                  IF format_weather_data(fetch.data) = "raise"
                  THEN [requests EXCEPT ![r].outcome = "raised",
                                        ![r].pc = "done"]
                  ELSE Goto(r, "generate")
    /\ UNCHANGED <<rate_limit, last_location, race, Shared>>

\* Line 347 or 388: client.messages.create, which may raise.
Generate(r) ==
    /\ At(r, "generate")
    /\ \E gen_ok \in BOOLEAN :
          requests' =
              IF gen_ok THEN Goto(r, "update_read")
              ELSE [requests EXCEPT ![r].outcome = "raised",
                                    ![r].pc = "done"]
    /\ UNCHANGED <<rate_limit, last_location, race, Shared>>

\* Line 237, first half: load rate_limit["remaining"].
UpdateRead(r) ==
    /\ At(r, "update_read")
    /\ requests' = [requests EXCEPT ![r].read = rate_limit.remaining,
                                    ![r].pc = "update_write"]
    /\ race' = [race EXCEPT !.overlap =
                   @ \/ \E o \in Requests \ {r} : At(o, "update_write")]
    /\ UNCHANGED <<rate_limit, last_location, Shared>>

\* Line 237, second half: store the decremented value.
UpdateWrite(r) ==
    /\ At(r, "update_write")
    /\ rate_limit' = StoreDecrement(rate_limit, requests[r].read)
    /\ requests' = Goto(r, "update_check")
    /\ UNCHANGED <<last_location, race, Shared>>

\* Lines 238-239: the two tests before the refill.
UpdateCheck(r) ==
    /\ At(r, "update_check")
    /\ requests' =
          IF rate_limit.remaining <= 0
                /\ now >= rate_limit.reset_at * TicksPerSec
          THEN Goto(r, "refill_remaining")
          ELSE [requests EXCEPT ![r].updates = 1, ![r].pc = "respond"]
    /\ UNCHANGED <<rate_limit, last_location, race, Shared>>

\* Line 240.
RefillRemaining(r) ==
    /\ At(r, "refill_remaining")
    /\ rate_limit' = [rate_limit EXCEPT !.remaining = rate_limit.limit]
    /\ requests' = Goto(r, "refill_reset")
    /\ UNCHANGED <<last_location, race, Shared>>

\* Line 241.
RefillReset(r) ==
    /\ At(r, "refill_reset")
    /\ rate_limit' = [rate_limit EXCEPT !.reset_at = IntSecs(now) + Hour]
    /\ requests' = [requests EXCEPT ![r].updates = 1, ![r].refilled = TRUE,
                                    ![r].pc = "respond"]
    /\ UNCHANGED <<last_location, race, Shared>>

\* The envelope is built and returned; the chat envelope compares location
\* with self.last_location (line 377).  The language-model calls made here
\* (generate_non_weather_response, generate_weather_chat_response) catch
\* their failures.
Respond(r) ==
    /\ At(r, "respond")
    /\ LET me == requests[r]
           path == Path(QueryFacts[me.q].direct, QueryFacts[me.q].related)
       IN  requests' = [requests EXCEPT
              ![r].outcome = "returned",
              ![r].location_context =
                  IF path # "chat" THEN "absent"
                  ELSE IF me.location = last_location THEN "cached"
                  ELSE "new",
              ![r].pc = "done"]
    /\ UNCHANGED <<rate_limit, last_location, race, Shared>>

\* Time passes while requests are served.
TickConc ==
    /\ now < MaxNow
    /\ now' = now + 1
    /\ UNCHANGED <<rate_limit, last_location, lang_rate_limit, streak, last,
                   requests, race>>

NextConc ==
    \/ \E r \in Requests :
          \/ Start(r) \/ Extract(r) \/ Resolve(r) \/ UseCached(r)
          \/ Fetch(r) \/ Generate(r)
          \/ UpdateRead(r) \/ UpdateWrite(r) \/ UpdateCheck(r)
          \/ RefillRemaining(r) \/ RefillReset(r) \/ Respond(r)
    \/ TickConc

SpecConc == InitConc /\ [][NextConc]_vars


\* ------------------------------------------------------------------- claims
Agents == {"weather", "language"}
RateLimitOf(a) == IF a = "weather" THEN rate_limit ELSE lang_rate_limit
WeatherCall == last.agent = "weather"
WeatherReturned == WeatherCall /\ last.outcome = "returned"
OutboundCalls == last.llm_calls + last.get_calls
ErrorResult == last.keys = {"error"}

\* C1: every process_query call that returns, on whichever path, has called
\* update_rate_limit exactly once: remaining is the value before the call
\* minus one, or limit when the refill fired.
C1_EveryReturnCountsOnce ==
    WeatherReturned =>
        /\ last.update_calls = 1
        /\ \/ rate_limit.remaining = last.pre_remaining - 1
           \/ /\ last.late /\ last.pre_remaining - 1 <= 0
              /\ rate_limit.remaining = rate_limit.limit

\* C2: for either agent, starting from remaining = limit, after exactly limit
\* consecutive update_rate_limit calls made before reset_at remaining is 0;
\* one further call at a time >= reset_at sets remaining to limit and
\* reset_at to the current time (in whole seconds) plus the refill window.
C2_ExhaustThenRefill ==
    \A a \in Agents :
        /\ streak[a] = RateLimitOf(a).limit => RateLimitOf(a).remaining = 0
        /\ (/\ last.agent = a /\ last.update_calls = 1
            /\ last.pre_streak = RateLimitOf(a).limit /\ last.late)
           => /\ RateLimitOf(a).remaining = RateLimitOf(a).limit
              /\ RateLimitOf(a).reset_at = IntSecs(last.set_read) + Hour

\* The weather agent has used up its budget within the window while the
\* language agent, having done the same, has just been refilled by a call at
\* or after reset_at.
W_C2 ==
    /\ streak.weather = Limit /\ rate_limit.remaining = 0
    /\ last.agent = "language" /\ last.update_calls = 1
    /\ last.pre_streak = Limit /\ last.pre_remaining = 0 /\ last.late
    /\ lang_rate_limit.remaining = Limit

\* C3: in every reachable state of either agent, 0 <= remaining <= limit.
C3_RemainingWithinBounds ==
    \A a \in Agents :
        /\ 0 <= RateLimitOf(a).remaining
        /\ RateLimitOf(a).remaining <= RateLimitOf(a).limit

\* C4 as stated: the response type is fixed by the two classifier predicates
\* alone: off_topic_response when neither holds, weather_report whenever
\* is_weather_query holds, weather_chat when only is_weather_related holds.
C4_TypeFixedByClassifiers ==
    WeatherReturned =>
        last.type = IF ~last.direct /\ ~last.related THEN "off_topic_response"
                    ELSE IF last.direct THEN "weather_report"
                    ELSE "weather_chat"

\* C4 amended: as C4, except that a query with is_weather_query true for which
\* no location is extracted returns the location error instead of a report;
\* no query with is_weather_query true ever yields weather_chat.
C4_PathFixedByClassifiers ==
    WeatherReturned =>
        /\ ~last.direct /\ ~last.related => last.type = "off_topic_response"
        /\ ~last.direct /\ last.related => last.type = "weather_chat"
        /\ last.direct /\ Truthy(last.extracted)
              => last.type = "weather_report"
        /\ last.direct /\ ~Truthy(last.extracted)
              => ErrorResult /\ last.type = "none"

\* A query that is both direct and weather-related was answered by a report.
W_C4 ==
    /\ WeatherReturned /\ last.direct /\ last.related
    /\ last.type = "weather_report"

\* C5: an off-topic query calls neither extract_location nor
\* get_weather_data, leaves last_location unchanged and returns an envelope of
\* type off_topic_response with zero total_tokens, fallback_used false and no
\* weather_data key, also when the language-model call fails.
C5_OffTopicTouchesNothing ==
    (WeatherCall /\ ~last.direct /\ ~last.related) =>
        /\ last.outcome = "returned"
        /\ last.extract_calls = 0 /\ last.fetch_calls = 0
        /\ last.get_calls = 0
        /\ last.kept_location
        /\ last.type = "off_topic_response"
        /\ last.total_tokens = 0
        /\ ~last.fallback_used
        /\ "weather_data" \notin last.keys /\ "response" \in last.keys
        /\ last.text \in {"model", "fallback_line"}

\* An off-topic query was answered with the fixed line after the model call
\* failed, while a location was cached.
W_C5 ==
    /\ WeatherCall /\ ~last.direct /\ ~last.related
    /\ last.text = "fallback_line" /\ Truthy(last_location)


C7_AtMostTwoOutbound == WeatherCall => OutboundCalls <= 2

\* C7 amended: one process_query call makes at most four outbound calls: one
\* on the off-topic path, one on the location-error path, at most three on
\* the report path and at most four on the chat path.
C7_OutboundCallBounds ==
    WeatherCall =>
        /\ OutboundCalls <= 4
        /\ ~last.direct /\ ~last.related => OutboundCalls = 1
        /\ ErrorResult => OutboundCalls = 1
        /\ last.direct => OutboundCalls <= 3

\* A chat query that no extraction regex matches made four outbound calls.
W_C7 ==
    /\ WeatherReturned /\ last.type = "weather_chat" /\ ~last.regex
    /\ OutboundCalls = 4

\* C8: the confidence score (in hundredths) of a report is within [0, 1] for
\* every payload and response time, and equals round(0.4 * completeness +
\* 0.2, 2) when the payload has no dt and the response time is 0 ms.
C8_ConfidenceInUnitRange ==
    (WeatherReturned /\ last.type = "weather_report") =>
        /\ 0 <= last.confidence /\ last.confidence <= 100
        /\ ("dt" \notin last.raw.keys /\ last.response_time = 0)
              => last.confidence =
                    RoundHalfEven(
                        40 * Cardinality(required_fields \cap last.raw.keys)
                            + 60, 3)

C10_LocationResolution ==
    (WeatherCall /\ (last.direct \/ last.related)) =>
        /\ last.extract_calls = 1
        /\ Truthy(last.extracted) =>
              /\ last.location = last.extracted
              /\ last_location = last.extracted
              /\ last.fetch_calls = 1
        /\ ~Truthy(last.extracted) =>
              /\ last.kept_location
              /\ (~last.direct /\ Truthy(last_location)) =>
                    last.location = last_location /\ last.fetch_calls = 1
              /\ last.direct =>
                    /\ last.outcome = "returned" /\ ErrorResult
                    /\ last.fetch_calls = 0 /\ last.get_calls = 0
                    /\ last.gen_calls = 0 /\ last.update_calls = 0
              /\ (~last.direct /\ ~Truthy(last_location)) =>
                    /\ last.location = Loc(<<"general">>)
                    /\ last.fetch_calls = 1

\* A chat query without a location of its own reused the cached one.
W_C10 ==
    /\ WeatherCall /\ last.related /\ ~last.direct
    /\ ~Truthy(last.extracted) /\ Truthy(last_location)
    /\ last.location = last_location /\ last.fetch_calls = 1


\* C11: in a weather-chat response location_context is "cached" exactly when
\* the location was reused from last_location because extraction found none,
\* and "new" when the location was extracted from the current query or is the
\* "general" default.
C11_CachedOnlyWhenReused ==
    (WeatherReturned /\ last.type = "weather_chat") =>
        /\ last.location_context \in {"cached", "new"}
        /\ last.location_context = "cached"
              <=> (~Truthy(last.extracted) /\ Truthy(last_location)
                      /\ last.location = last_location)


\* C12: on the chat and report paths a failure to obtain usable weather data
\* never aborts the query: the fetch yields no data (and raises nothing) on a
\* transport error, a non-200 status or an empty city name; process_query
\* still calls the language model; and an envelope it returns carries the
\* error marker as weather_data whenever the payload was not usable, with
\* fallback_used true exactly when the fetch returned no data.
C12_WeatherFailureNeverAborts ==
    (WeatherCall /\ last.fetch_calls = 1) =>
        /\ last.provider \in {"none", "exception", "status"}
              => ~last.raw.present
        /\ last.gen_calls >= 1
        /\ last.outcome = "returned" =>
              /\ last.fallback_used <=> ~last.raw.present
              /\ last.weather_data \in {"unavailable", "format_error"}
                    <=> ~(HasData(last.raw)
                            /\ required_fields \subseteq last.raw.keys)


AllDone == \A r \in Requests : requests[r].pc = "done"
Updated == {r \in Requests : requests[r].updates = 1}
NoRefill == \A r \in Requests : ~requests[r].refilled

\* C13: two concurrent process_query calls on one WeatherAgent race on
\* rate_limit and last_location.  Once both have ended without a refill,
\* remaining has dropped by the number of update_rate_limit calls completed,
\* less one when the two read-modify-write sections overlapped (a lost
\* update); and a chat request that took its location from the cache took
\* the location the other request extracted and stored, whether that was
\* stored before or after the reading request started.
C13_UnsynchronisedRaces ==
    /\ (AllDone /\ NoRefill) =>
          rate_limit.remaining =
              race.base - Cardinality(Updated)
                  + (IF race.overlap THEN 1 ELSE 0)
    /\ race.overlap => \A r \in Requests : requests[r].read = race.base
    /\ \A r \in Requests :
          requests[r].source = "cached" =>
              /\ requests[r].writer_used \in Requests \ {r}
              /\ requests[requests[r].writer_used].source = "extracted"
              /\ requests[r].location
                    = requests[requests[r].writer_used].location
              /\ requests[r].epoch_used >= requests[r].epoch0

\* Both requests completed update_rate_limit yet remaining fell by one only,
\* and one of them, a chat query without a location, used the location the
\* other stored after it had started.
W_C13 ==
    /\ AllDone /\ NoRefill /\ Updated = Requests
    /\ rate_limit.remaining = race.base - 1
    /\ \E r \in Requests :
          /\ requests[r].source = "cached"
          /\ requests[r].outcome = "returned"
          /\ requests[r].writer_used # r
          /\ requests[r].epoch_used > requests[r].epoch0


\* C14: last_location is None or the value of the most recent successful
\* extract_location call: every step either is a process_query call whose
\* extraction succeeded, after which last_location is the extracted value
\* whatever happens later in the call (failed fetch, raising formatter or
\* language-model call), or leaves last_location as it was; it never goes
\* back to None, and a call that falls back to the "general" default does
\* not store it.
C14_LastLocationIsLastExtraction ==
    [][ /\ Truthy(last_location) => Truthy(last_location')
        /\ (last'.agent = "weather" /\ Truthy(last'.extracted))
              => last_location' = last'.extracted
        /\ ~(last'.agent = "weather" /\ Truthy(last'.extracted))
              => last_location' = last_location
        /\ (last'.agent = "weather" /\ last'.location = Loc(<<"general">>)
               /\ ~Truthy(last'.extracted))
              => last_location' = None
      ]_vars

\* A call stored a newly extracted location and then failed after the fetch.
W_C14 ==
    /\ WeatherCall /\ last.outcome = "raised"
    /\ last.fetch_calls = 1 /\ last.get_calls = 1
    /\ Truthy(last.extracted) /\ last_location = last.extracted
    /\ ~last.kept_location


====
